---- MODULE Spec2Model ----
(***************************************************************************)
(* The escalation / event-routing control core of the terminal dashboard   *)
(* (core/framework/tui/app.py, class AdenTUI).                             *)
(*                                                                         *)
(* One asyncio event loop runs every handler below.  A handler is atomic   *)
(* from one await to the next; the workers started with @work and the      *)
(* coroutine _return_from_escalation are suspended at their awaits and     *)
(* other handlers run in between.  Each action is one such atomic segment. *)
(***************************************************************************)
EXTENDS Integers, Sequences, FiniteSets, TLC

\* ---------------------------------------------------------------- bounds
\* Runners/runtimes that AgentRunner.load may create in one run.
MaxHandles == 3
\* Depth of _escalation_stack (unbounded in the code).
MaxDepth == 2
\* Live subscriptions counted on one runtime.
MaxSubs == 2
\* cleanup_async calls counted on one runner.
MaxCleanups == 2
\* Callbacks queued with call_later and not yet run.
MaxCalls == 1
\* Modal screens pushed and not yet dismissed.
MaxScreens == 1
\* Requests made of the app by its user and its runtimes in one run.
MaxRequests == 4

\* ------------------------------------------------------------ vocabulary
\* Python's None, for self.runtime, self._runner, self.chat_repl; an absent
\* _subscription_id attribute is None too.
None == 0
\* A handle h names one AgentRunner and the runtime it owns
\* (runner._agent_runtime); handles are never reused.
Handles == 1 .. MaxHandles
\* node_id of the node that asked for the escalation ("" when user-initiated).
NodeIds == {"", "n1"}
\* reason and context of an escalation request (event.data).
Reasons == {"", "stuck"}
Contexts == {"", "trace"}
\* summary argument of _return_from_escalation.
Summaries == {"", "done"}
\* The escalation target and any other agent path.
HiveCoder == "hive_coder"
Worker == "worker"
AgentPaths == {Worker, HiveCoder}

VARIABLES
    app,    \* AdenTUI's attributes and what its handlers change outside it
    esc,    \* the worker of group "escalation" (_do_escalate_to_coder)
    ret,    \* the coroutine _return_from_escalation
    load,   \* the worker of the default group (_do_load_agent, _do_finish_agent_load)
    obs,    \* history: the escalate/return sequence under way
    requests,   \* requests made so far (key presses, picks, events)
    router,     \* events between a runtime's EventBus and _route_event
    discord,    \* one call of a Discord tool and its HTTP exchange
    registry,   \* LocalCredentialRegistry: its storage and its last call
    shutdown    \* on_unmount: its position and the execution tasks it met

vars == <<app, esc, ret, load, obs, requests, router, discord, registry, shutdown>>
\* What the dashboard's handlers never touch.
aux == <<router, discord, registry, shutdown>>

\* The app as a handler finds it: the notice and the calls of the step before
\* are gone.
cur == [app EXCEPT !.notice = "", !.calls = <<>>]

\* Shorthands for the attributes the claims speak of.
runtime == app.runtime
runner == app._runner
stack == app._escalation_stack
Depth == Len(app._escalation_stack)

Last(s) == s[Len(s)]
Front(s) == SubSeq(s, 1, Len(s) - 1)

\* Everything stays within the bounds above (a guard on the successor).
Bounded(a) ==
    /\ Len(a._escalation_stack) <= MaxDepth
    /\ \A h \in Handles : a.subs[h] <= MaxSubs /\ a.cleanups[h] <= MaxCleanups
    /\ a.call_later <= MaxCalls
    /\ Len(a.screens) <= MaxScreens

\* ------------------------------------------------------ AdenTUI helpers
\* self.notify(msg, severity="warning" | "error"): app.notice is the warning or
\* error raised by the step just taken ("" when it raised none).
notify(a, msg) == [a EXCEPT !.notice = msg]
\* self.notify(msg, severity="information"): a toast, not recorded.
inform(a) == a

\* A call made on a runtime: app.calls lists the calls of the step just taken.
Call(op, on, node, msg) == [op |-> op, on |-> on, node |-> node, msg |-> msg]
called(a, c) == [a EXCEPT !.calls = Append(@, c)]

\* "if hasattr(self, '_subscription_id'): try: self.runtime.unsubscribe_from_events(
\* self._subscription_id) except Exception: pass; del self._subscription_id".
\* EventBus side: the token is known only to the runtime it was issued by;
\* with self.runtime None the call raises before it is made.
\* (KeepsToken is a faulty variant without "del self._subscription_id".)
KeepsToken(a) ==
    IF a._subscription_id = None \/ a.runtime = None
    THEN a
    ELSE [called(a, Call("unsubscribe_from_events", a.runtime, "", ""))
            EXCEPT !.subs = IF a._subscription_id = a.runtime /\ a.subs[a.runtime] > 0
                            THEN [a.subs EXCEPT ![a.runtime] = @ - 1]
                            ELSE a.subs]
unsubscribe_from_events(a) ==
    IF a._subscription_id = None
    THEN a
    ELSE LET made == IF a.runtime # None
                     THEN called(a, Call("unsubscribe_from_events", a.runtime, "", ""))
                     ELSE a
         IN  [made EXCEPT
                !.subs = IF a.runtime # None /\ a._subscription_id = a.runtime
                         THEN [a.subs EXCEPT ![a.runtime] = @ - 1]
                         ELSE a.subs,
                !._subscription_id = None]

\* workspace children removed; graph_view and chat_repl set to None.
remove_children(a) == [a EXCEPT !.chat_repl = None]

\* GraphOverview(self.runtime), ChatRepl(self.runtime, ...) mounted.
_mount_agent_widgets(a) == [a EXCEPT !.chat_repl = a.runtime]

_unmount_agent_widgets(a) == remove_children(unsubscribe_from_events(a))

\* subscribe_to_events on self.runtime; any exception (a failing subscribe,
\* self.runtime being None) is swallowed and leaves _subscription_id as it was.
_init_runtime_connection(a, ok) ==
    IF a.runtime = None THEN a
    ELSE IF ok
    THEN [a EXCEPT !.subs[a.runtime] = @ + 1, !._subscription_id = a.runtime]
    ELSE called(a, Call("subscribe_to_events", a.runtime, "", "raised"))

\* self.call_later(self._init_runtime_connection)
call_later_init(a) == [a EXCEPT !.call_later = @ + 1]

\* self._runner.cleanup_async() is called (its outcome is ignored by callers).
cleanup_async(a) ==
    IF a._runner = None THEN a
    ELSE [a EXCEPT !.cleanups[a._runner] = @ + 1]

\* Emergency restore when coder loading fails (lines 765-773).
_restore_from_escalation_stack(a) ==
    IF a._escalation_stack = <<>> THEN a
    ELSE LET saved == Last(a._escalation_stack)
         IN  call_later_init(_mount_agent_widgets(
                 [a EXCEPT !._escalation_stack = Front(@),
                           !._runner = saved.runner,
                           !.runtime = saved.runtime]))

\* missing: whether build_setup_session_from_error found missing credentials.
_show_credential_setup(a, agent_path, on_cancel, missing) ==
    IF ~missing
    THEN LET warned == notify(a, "credential error")
         IN  IF on_cancel THEN _restore_from_escalation_stack(warned) ELSE warned
    ELSE [a EXCEPT !.screens = Append(@,
            [screen |-> "credential_setup", agent_path |-> agent_path,
             on_cancel |-> on_cancel, runner |-> None])]

\* AgentRunner.load(path) succeeded: runner h with its runtime.
NewRunner(a, h, path, by) ==
    [a EXCEPT !.agent[h] = path, !.loaded_by[h] = by, !.next = h + 1]

\* check_action for the two Ctrl+E bindings.
\* (BothBindings is a faulty variant that shows every binding.)
BothBindings(a, action) == TRUE
check_action(a, action) ==
    IF action = "escalate_to_coder" THEN a._escalation_stack = <<>>
    ELSE IF action = "return_from_coder" THEN a._escalation_stack # <<>>
    ELSE TRUE

\* ------------------------------------------------------------------ Init
\* No event is under way; no Discord tool is called.
RouterOff == [pc |-> "off"]
DiscordOff == [pc |-> "off"]
\* The app is running: on_unmount has not been called.
ShutdownOff == [pc |-> "off"]
\* EncryptedFileStorage holds no account and no call was made.
_SEPARATOR == "/"
CredentialIds == {"brave_search", "github"}
Aliases == {"", "work"}
StoredAliases == (Aliases \ {""}) \cup {"default"}
NoAccount == [api_key |-> "-"]
RegistryEmpty ==
    [storage |-> [id \in {<<c, _SEPARATOR, al>> : c \in CredentialIds,
                                                  al \in Aliases \cup StoredAliases}
                    |-> NoAccount],
     ops |-> 0,
     last |-> [op |-> "none"]]
NoPre == [runtime |-> None, runner |-> None, depth |-> 0]
ObsOff == [pre |-> NoPre, phase |-> "off", shadow |-> <<>>, m |-> 0]

\* AdenTUI(runtime=None) or AdenTUI(runtime=<a started runtime>): the state
\* after __init__, before on_mount.
Init ==
    /\ \E direct \in BOOLEAN :
         app = [runtime |-> IF direct THEN 1 ELSE None,
                _runner |-> None,
                _escalation_stack |-> <<>>,
                _subscription_id |-> None,
                chat_repl |-> None,
                is_ready |-> FALSE,
                subs |-> [h \in Handles |-> 0],
                cleanups |-> [h \in Handles |-> 0],
                agent |-> [h \in Handles |-> IF direct /\ h = 1 THEN Worker ELSE ""],
                loaded_by |-> [h \in Handles |-> IF direct /\ h = 1 THEN "direct" ELSE ""],
                next |-> IF direct THEN 2 ELSE 1,
                call_later |-> 0,
                screens |-> <<>>,
                notice |-> "",
                calls |-> <<>>]
    /\ esc = [pc |-> "idle", node |-> "", pre |-> NoPre,
              reason |-> "", context |-> "", worker_path |-> "", input |-> <<>>]
    /\ ret = [pc |-> "idle", summary |-> ""]
    /\ load = [pc |-> "idle", agent_path |-> "", runner |-> None]
    /\ obs = ObsOff
    /\ requests = 0
    /\ router = RouterOff
    /\ discord = DiscordOff
    /\ registry = RegistryEmpty
    /\ shutdown = ShutdownOff


\* --------------------------------------------------------------- history
\* No worker or coroutine is in flight, no screen is open, no callback queued.
Quiescent ==
    /\ esc.pc = "idle" /\ ret.pc = "idle" /\ load.pc = "idle"
    /\ app.screens = <<>> /\ app.call_later = 0

\* A step that is no part of an uninterrupted escalate.../return... sequence.
ObsReset(label) == ObsOff
\* A further step of the operation under way.
ObsContFrom(o, label) ==
    IF o.phase = "off" THEN ObsReset(label)
    ELSE [o EXCEPT !.pre = NoPre]
ObsCont(label) == ObsContFrom(obs, label)
\* An escalate is requested: it starts or continues a sequence of escalates
\* when nothing else is in flight.
ObsEscalateRequested(label) ==
    IF Quiescent /\ app.runtime # None
    THEN IF obs.phase = "esc" THEN [obs EXCEPT !.pre = NoPre]
         ELSE IF app._escalation_stack = <<>>
              THEN [ObsOff EXCEPT !.phase = "esc"]
              ELSE ObsReset(label)
    ELSE ObsReset(label)
\* The escalate pushes: remember what was active just before it.
ObsEscalateBegin(label) ==
    IF obs.phase = "esc"
    THEN [obs EXCEPT !.pre = NoPre,
                     !.shadow = Append(@, <<app.runtime, app._runner>>)]
    ELSE ObsReset(label)
\* A return is requested after the escalates of the sequence.
ObsReturnRequested(label) ==
    IF Quiescent /\ obs.phase \in {"esc", "ret"} /\ obs.m < Len(obs.shadow)
    THEN [obs EXCEPT !.pre = NoPre, !.phase = "ret"]
    ELSE ObsReset(label)
\* A return of the sequence has run to its end.
ObsReturnDoneFrom(o, label) ==
    IF o.phase = "ret"
    THEN [o EXCEPT !.pre = NoPre, !.m = @ + 1]
    ELSE ObsReset(label)
\* An escalate failed: keep what was active before it for one step.
ObsEscalateFailed(label) == [ObsOff EXCEPT !.pre = esc.pre]

\* The app's message pump takes the next key press or screen result: the app
\* is running, the pump is not awaiting action_return_from_coder, and no
\* callback queued with call_later is ahead in its queue.
PumpFree == app.is_ready /\ ret.pc = "idle" /\ app.call_later = 0

\* One more request is made, while the run's budget lasts.
Request == requests < MaxRequests /\ requests' = requests + 1

EscIdle == [pc |-> "idle", node |-> "", pre |-> NoPre,
            reason |-> "", context |-> "", worker_path |-> "", input |-> <<>>]
RetIdle == [pc |-> "idle", summary |-> ""]
LoadIdle == [pc |-> "idle", agent_path |-> "", runner |-> None]

\* --------------------------------------------------------------- startup
\* on_mount runs once, when the app starts.
on_mount ==
    /\ ~app.is_ready /\ shutdown.pc = "off"
    /\ app' = IF app.runtime # None
              THEN call_later_init(_mount_agent_widgets([cur EXCEPT !.is_ready = TRUE]))
              ELSE [cur EXCEPT !.is_ready = TRUE]
    /\ Bounded(app')
    /\ obs' = ObsReset("on_mount")
    /\ UNCHANGED requests
    /\ UNCHANGED <<esc, ret, load>>
    /\ UNCHANGED aux

\* A callback queued with call_later(self._init_runtime_connection) runs.
run_call_later ==
    /\ app.is_ready /\ app.call_later > 0 /\ ret.pc = "idle"
    /\ \E sub_failed \in BOOLEAN :
         app' = _init_runtime_connection([cur EXCEPT !.call_later = @ - 1], ~sub_failed)
    /\ Bounded(app')
    /\ obs' = ObsReset("call_later")
    /\ UNCHANGED requests
    /\ UNCHANGED <<esc, ret, load>>
    /\ UNCHANGED aux

\* ------------------------------------------------------------- escalate
\* Calling the @work(exclusive=True, group="escalation") method: the worker
\* of the group still in flight is cancelled (CancelledError at its await is
\* not an Exception, so none of its except clauses runs) and a new one is
\* scheduled.
start_escalation_worker(node, reason, context) ==
    [pc |-> "start", node |-> node, pre |-> NoPre,
     reason |-> reason, context |-> context, worker_path |-> "", input |-> <<>>]

\* "if self.runtime is None: self.notify('No active agent to escalate from',
\* severity='error'); return", in action_escalate_to_coder (lines 1256-1258)
\* and again in _do_escalate_to_coder (lines 577-579).
\* (AlwaysAnAgent is a faulty variant without the check.)
AlwaysAnAgent(a) == FALSE
no_active_agent(a) == a.runtime = None

\* Ctrl+E while the binding "escalate_to_coder" is the enabled one.
action_escalate_to_coder ==
    /\ PumpFree
    /\ check_action(app, "escalate_to_coder")
    /\ IF no_active_agent(app)
       THEN /\ app' = notify(cur, "No active agent to escalate from")
            /\ UNCHANGED esc
       ELSE /\ esc' = start_escalation_worker("", "User-initiated escalation", "")
            /\ app' = cur
    /\ obs' = ObsEscalateRequested("action_escalate_to_coder")
    /\ Request
    /\ UNCHANGED <<ret, load>>
    /\ UNCHANGED aux

\* An ESCALATION_REQUESTED event of runtime h reaches _route_event: h holds
\* a live subscription of this app and is still running; graph_id is absent
\* (tagged = FALSE) or that of h's graph.
route_escalation_requested ==
    /\ app.is_ready /\ app.chat_repl # None /\ app.runtime # None
    /\ \E h \in Handles, tagged \in BOOLEAN, node \in NodeIds,
          reason \in Reasons, context \in Contexts :
         /\ app.subs[h] > 0 /\ app.cleanups[h] = 0
         /\ tagged => app.agent[h] = app.agent[app.runtime]
         /\ esc' = start_escalation_worker(node, reason, context)
    /\ obs' = ObsEscalateRequested("route_escalation_requested")
    /\ app' = cur
    /\ Request
    /\ UNCHANGED <<ret, load>>
    /\ UNCHANGED aux

\* "Remember worker agent path for coder context" (lines 596-599).
worker_path(a) == IF a._runner # None THEN a.agent[a._runner] ELSE ""

\* _build_escalation_input: the parts that "\n\n".join(parts) puts together,
\* in order; each part is its section and the text it carries.
Part(section, text) == [section |-> section, text |-> text]
Fallback == <<Part("fallback", "The user needs help modifying their agent.")>>
\* (ContextAlways is a faulty variant that adds the context section untested.)
ContextAlways(reason, context, path) ==
    (IF path # "" THEN <<Part("location", path)>> ELSE <<>>)
    \o (IF reason # "" THEN <<Part("problem", reason)>> ELSE <<>>)
    \o <<Part("context", context)>>
_build_escalation_input(reason, context, path) ==
    LET parts == (IF path # "" THEN <<Part("location", path)>> ELSE <<>>)
                 \o (IF reason # "" THEN <<Part("problem", reason)>> ELSE <<>>)
                 \o (IF context # "" THEN <<Part("context", context)>> ELSE <<>>)
    IN  IF parts = <<>> THEN Fallback ELSE parts

\* 1. Save current state (lines 581-587).
\* (PushUnderTop is a faulty variant that inserts the frame at the bottom.)
PushUnderTop(a, node) ==
    LET saved == [runner |-> a._runner, runtime |-> a.runtime, blocked_node_id |-> node]
    IN  [a EXCEPT !._escalation_stack = <<saved>> \o @]
push_frame(a, node) ==
    LET saved == [runner |-> a._runner, runtime |-> a.runtime, blocked_node_id |-> node]
    IN  [a EXCEPT !._escalation_stack = Append(@, saved)]

\* _do_escalate_to_coder up to its first await (lines 577-628).
escalate_begin ==
    /\ esc.pc = "start"
    /\ IF no_active_agent(app)
       THEN /\ app' = notify(cur, "No active agent to escalate from")
            /\ esc' = EscIdle
            /\ obs' = ObsReset("escalate_no_runtime")
       ELSE /\ app' = inform(remove_children(unsubscribe_from_events(
                          push_frame(cur, esc.node))))
            /\ esc' = [esc EXCEPT !.pc = "load",
                         !.worker_path = worker_path(app),
                         !.pre = [runtime |-> app.runtime, runner |-> app._runner,
                                  depth |-> Len(app._escalation_stack)]]
            /\ obs' = ObsEscalateBegin("escalate_begin")
    /\ Bounded(app')
    /\ UNCHANGED requests
    /\ UNCHANGED <<ret, load>>
    /\ UNCHANGED aux

\* Lines 629-645 and 660-681: hive_coder loaded, set up and started; it
\* becomes the active runtime, widgets are mounted, events subscribed and the
\* entry point triggered.
escalate_load_ok ==
    /\ esc.pc = "load" /\ app.next <= MaxHandles
    /\ \E sub_failed \in BOOLEAN, has_entry \in {TRUE, FALSE} :
         LET h == app.next
             installed == [NewRunner(cur, h, HiveCoder, "escalate")
                             EXCEPT !._runner = h, !.runtime = h]
             connected == _init_runtime_connection(_mount_agent_widgets(installed),
                                                  ~sub_failed)
             escalation_input == _build_escalation_input(
                                     esc.reason, esc.context, esc.worker_path)
         IN  IF has_entry
             THEN /\ app' = called(connected, Call("trigger", h, "", "user_request"))
                  /\ esc' = [esc EXCEPT !.pc = "trigger", !.input = escalation_input]
             ELSE /\ app' = inform(connected)
                  /\ esc' = EscIdle
    /\ Bounded(app')
    /\ obs' = ObsCont("escalate_load_ok")
    /\ UNCHANGED requests
    /\ UNCHANGED <<ret, load>>
    /\ UNCHANGED aux

\* Lines 681-691: the trigger returned an execution id or raised.
escalate_triggered ==
    /\ esc.pc = "trigger"
    /\ \E failed \in BOOLEAN :
         app' = IF failed THEN notify(cur, "Error starting coder") ELSE inform(cur)
    /\ esc' = EscIdle
    /\ obs' = ObsCont("escalate_triggered")
    /\ UNCHANGED requests
    /\ UNCHANGED <<ret, load>>
    /\ UNCHANGED aux

\* Lines 654-658: any other exception while loading.
escalate_load_failed ==
    /\ esc.pc = "load"
    /\ app' = _restore_from_escalation_stack(notify(cur, "Failed to load coder"))
    /\ Bounded(app')
    /\ esc' = EscIdle
    /\ obs' = ObsEscalateFailed("escalate_load_failed")
    /\ UNCHANGED requests
    /\ UNCHANGED <<ret, load>>
    /\ UNCHANGED aux

\* Lines 646-653: CredentialError while loading.
escalate_credential_error ==
    /\ esc.pc = "load"
    /\ \E missing \in BOOLEAN :
         app' = _show_credential_setup(cur, HiveCoder, TRUE, missing)
    /\ Bounded(app')
    /\ esc' = EscIdle
    /\ obs' = ObsEscalateFailed("escalate_credential_error")
    /\ UNCHANGED requests
    /\ UNCHANGED <<ret, load>>
    /\ UNCHANGED aux


\* --------------------------------------------------------------- return
\* 2. Restore worker (lines 723-726).
\* (PopBottom is a faulty variant that takes the oldest frame.)
PopBottom(a) ==
    LET saved == Head(a._escalation_stack)
    IN  [a EXCEPT !._escalation_stack = Tail(@),
                  !._runner = saved.runner,
                  !.runtime = saved.runtime]
pop_and_restore(a) ==
    LET saved == Last(a._escalation_stack)
    IN  [a EXCEPT !._escalation_stack = Front(@),
                  !._runner = saved.runner,
                  !.runtime = saved.runtime]

\* 4. Inject return message to unblock the worker node (lines 735-746): the
\* call self.runtime.inject_input(blocked_node_id, return_msg) is submitted to
\* the agent loop.
\* (InjectsBareSummary is a faulty variant without the default message;
\* InjectsAlways one without the test of blocked_node_id.)
DefaultReturnMsg == "Coder session completed. Continuing."
InjectsBareSummary(a, saved, summary) ==
    IF saved.blocked_node_id # ""
    THEN called(a, Call("inject_input", a.runtime, saved.blocked_node_id, summary))
    ELSE a
InjectsAlways(a, saved, summary) ==
    called(a, Call("inject_input", a.runtime, saved.blocked_node_id,
                   IF summary # "" THEN summary ELSE DefaultReturnMsg))
inject_return_message(a, saved, summary) ==
    IF saved.blocked_node_id # ""
    THEN called(a, Call("inject_input", a.runtime, saved.blocked_node_id,
                        IF summary # "" THEN summary ELSE DefaultReturnMsg))
    ELSE a

\* _return_from_escalation from the pop on (lines 723-763), in state a. The
\* pop raises IndexError on a stack emptied meanwhile and the coroutine ends.
return_restore(a, o, summary) ==
    IF a._escalation_stack = <<>>
    THEN /\ app' = a
         /\ ret' = RetIdle
         /\ obs' = ObsReset("return_index_error")
    ELSE \E sub_failed \in BOOLEAN :
           LET saved == Last(a._escalation_stack)
               connected == _init_runtime_connection(
                                _mount_agent_widgets(pop_and_restore(a)), ~sub_failed)
               resumed == inject_return_message(connected, saved, summary)
           IN  IF saved.blocked_node_id # ""
               THEN /\ app' = resumed
                    /\ ret' = [pc |-> "inject", summary |-> summary]
                    /\ obs' = ObsContFrom(o, "return_restored")
               ELSE /\ app' = inform(resumed)
                    /\ ret' = RetIdle
                    /\ obs' = ObsReturnDoneFrom(o, "returned")

\* The guard of lines 711-713.
\* (NoEmptyCheck is a faulty variant that never takes the early return.)
NoEmptyCheck(a) == FALSE
nothing_to_return_from(a) == a._escalation_stack = <<>>

\* _return_from_escalation(summary) up to its first await (lines 709-721).
return_begin(summary) ==
    IF nothing_to_return_from(app)
    THEN /\ app' = notify(cur, "No escalation to return from")
         /\ ret' = RetIdle
         /\ obs' = ObsReset("return_nothing")
    ELSE LET down == _unmount_agent_widgets(cur)
             o == ObsReturnRequested("return_begin")
         IN  IF down._runner # None
             THEN /\ app' = cleanup_async(down)
                  /\ ret' = [pc |-> "cleanup", summary |-> summary]
                  /\ obs' = o
             ELSE return_restore(down, o, summary)

\* Ctrl+E while the binding "return_from_coder" is the enabled one.
action_return_from_coder ==
    /\ PumpFree
    /\ check_action(app, "return_from_coder")
    /\ return_begin("")
    /\ Bounded(app')
    /\ Request
    /\ UNCHANGED <<esc, load>>
    /\ UNCHANGED aux

\* Any other caller of _return_from_escalation (the chat's /back command,
\* the escalation target signalling completion), with its summary.
return_requested ==
    /\ PumpFree
    /\ \E summary \in Summaries : return_begin(summary)
    /\ Bounded(app')
    /\ Request
    /\ UNCHANGED <<esc, load>>
    /\ UNCHANGED aux

\* "except Exception: pass" around the teardown (lines 718-721): whether an
\* exception of cleanup_async leaves _return_from_escalation.
\* (NoTeardownGuard is a faulty variant without the try block.)
NoTeardownGuard(raised) == raised
teardown_propagates(raised) == FALSE

\* cleanup_async of the escalation handle returned or raised (lines 718-721).
return_cleanup_done ==
    /\ ret.pc = "cleanup"
    /\ \E raised \in BOOLEAN :
         LET torn == IF raised
                     THEN called(cur, Call("cleanup_async", None, "", "raised"))
                     ELSE cur
         IN  IF teardown_propagates(raised)
             THEN /\ app' = torn
                  /\ ret' = RetIdle
                  /\ obs' = ObsReset("return_aborted")
             ELSE return_restore(torn, obs, ret.summary)
    /\ Bounded(app')
    /\ UNCHANGED requests
    /\ UNCHANGED <<esc, load>>
    /\ UNCHANGED aux

\* inject_input returned or raised (lines 746-763).
return_injected ==
    /\ ret.pc = "inject"
    /\ \E failed \in BOOLEAN :
         app' = IF failed THEN notify(cur, "Could not resume worker") ELSE inform(cur)
    /\ ret' = RetIdle
    /\ obs' = ObsReturnDoneFrom(obs, "returned")
    /\ UNCHANGED requests
    /\ UNCHANGED <<esc, load>>
    /\ UNCHANGED aux


\* ----------------------------------------------------- loading an agent
\* Calling _do_load_agent (a @work(exclusive=True) method of the default
\* group): the worker of that group still in flight is cancelled.
start_load_worker(agent_path) == [pc |-> "start", agent_path |-> agent_path, runner |-> None]

\* The agent picker (Ctrl+A, or on startup without a runtime) returns a pick.
action_show_agent_picker ==
    /\ PumpFree
    /\ load' = start_load_worker(Worker)
    /\ obs' = ObsReset("action_show_agent_picker")
    /\ app' = cur
    /\ Request
    /\ UNCHANGED <<esc, ret>>
    /\ UNCHANGED aux

\* _load_and_switch_agent, 1. Tear down old agent, up to the first await
\* (lines 340-368).
load_begin ==
    /\ load.pc = "start"
    /\ IF app.runtime # None /\ app._runner # None
       THEN /\ app' = cleanup_async(_unmount_agent_widgets(cur))
            /\ load' = [load EXCEPT !.pc = "cleanup"]
       ELSE /\ app' = inform(IF app.runtime # None
                             THEN [_unmount_agent_widgets(cur) EXCEPT !.runtime = None]
                             ELSE cur)
            /\ load' = [load EXCEPT !.pc = "load"]
    /\ Bounded(app')
    /\ obs' = ObsReset("load_begin")
    /\ UNCHANGED requests
    /\ UNCHANGED <<esc, ret>>
    /\ UNCHANGED aux

\* cleanup_async of the old runner returned or raised (lines 345-368).
load_cleanup_done ==
    /\ load.pc = "cleanup"
    /\ app' = inform([cur EXCEPT !._runner = None, !.runtime = None])
    /\ load' = [load EXCEPT !.pc = "load"]
    /\ obs' = ObsReset("load_cleanup_done")
    /\ UNCHANGED requests
    /\ UNCHANGED <<esc, ret>>
    /\ UNCHANGED aux

\* _finish_agent_load from the assignment on (lines 415-430).
_finish_agent_load(a, h, sub_ok) ==
    inform(_init_runtime_connection(
               _mount_agent_widgets([a EXCEPT !._runner = h, !.runtime = h]), sub_ok))

\* AgentRunner.load, _setup and start succeeded, no account selection.
load_ok ==
    /\ load.pc = "load" /\ app.next <= MaxHandles
    /\ \E sub_failed \in BOOLEAN :
         app' = _finish_agent_load(NewRunner(cur, app.next, load.agent_path, "switch"),
                                   app.next, ~sub_failed)
    /\ Bounded(app')
    /\ load' = LoadIdle
    /\ obs' = ObsReset("load_ok")
    /\ UNCHANGED requests
    /\ UNCHANGED <<esc, ret>>
    /\ UNCHANGED aux

\* Lines 376-379 and 417-420: a non-credential exception.
load_failed ==
    /\ load.pc \in {"load", "finish"}
    /\ app' = notify(cur, "Failed to load agent")
    /\ load' = LoadIdle
    /\ obs' = ObsReset("load_failed")
    /\ UNCHANGED requests
    /\ UNCHANGED <<esc, ret>>
    /\ UNCHANGED aux

\* Lines 369-375: CredentialError.
load_credential_error ==
    /\ load.pc = "load"
    /\ \E missing \in BOOLEAN :
         app' = _show_credential_setup(cur, load.agent_path, FALSE, missing)
    /\ Bounded(app')
    /\ load' = LoadIdle
    /\ obs' = ObsReset("load_credential_error")
    /\ UNCHANGED requests
    /\ UNCHANGED <<esc, ret>>
    /\ UNCHANGED aux

\* Lines 381-393: the loaded runner asks for an account; the screen is shown.
load_needs_account ==
    /\ load.pc = "load" /\ app.next <= MaxHandles
    /\ app' = [NewRunner(cur, app.next, load.agent_path, "switch")
                 EXCEPT !.screens = Append(@,
                    [screen |-> "account_selection", agent_path |-> load.agent_path,
                     on_cancel |-> FALSE, runner |-> app.next])]
    /\ Bounded(app')
    /\ load' = LoadIdle
    /\ obs' = ObsReset("load_needs_account")
    /\ UNCHANGED requests
    /\ UNCHANGED <<esc, ret>>
    /\ UNCHANGED aux

\* _do_finish_agent_load: the runner picked up after account selection is
\* set up and started (lines 398-430).
finish_ok ==
    /\ load.pc = "finish"
    /\ \E sub_failed \in BOOLEAN :
         app' = _finish_agent_load(cur, load.runner, ~sub_failed)
    /\ Bounded(app')
    /\ load' = LoadIdle
    /\ obs' = ObsReset("finish_ok")
    /\ UNCHANGED requests
    /\ UNCHANGED <<esc, ret>>
    /\ UNCHANGED aux

\* ---------------------------------------------------------------- screens
TopScreen == Last(app.screens)

\* CredentialSetupScreen dismissed: _on_result (lines 505-517).
credential_setup_result ==
    /\ PumpFree
    /\ app.screens # <<>> /\ TopScreen.screen = "credential_setup"
    /\ LET closed == [cur EXCEPT !.screens = Front(@)]
       IN  \E result \in BOOLEAN :
             IF result
             THEN /\ app' = closed
                  /\ load' = start_load_worker(TopScreen.agent_path)
             ELSE /\ app' = IF TopScreen.on_cancel
                            THEN _restore_from_escalation_stack(
                                     notify(closed, "Credential setup skipped"))
                            ELSE notify(closed, "Credential setup skipped")
                  /\ UNCHANGED load
    /\ Bounded(app')
    /\ obs' = ObsReset("credential_setup_result")
    /\ Request
    /\ UNCHANGED <<esc, ret>>
    /\ UNCHANGED aux

\* AccountSelectionScreen dismissed: _on_selection (lines 436-451).
account_selection_result ==
    /\ PumpFree
    /\ app.screens # <<>> /\ TopScreen.screen = "account_selection"
    /\ LET closed == [cur EXCEPT !.screens = Front(@)]
       IN  \E selected \in BOOLEAN :
             IF selected
             THEN /\ app' = closed
                  /\ load' = [pc |-> "finish", agent_path |-> TopScreen.agent_path,
                              runner |-> TopScreen.runner]
             ELSE /\ app' = notify(closed, "Account selection cancelled")
                  /\ UNCHANGED load
    /\ obs' = ObsReset("account_selection_result")
    /\ Request
    /\ UNCHANGED <<esc, ret>>
    /\ UNCHANGED aux

\* ------------------------------------------------------------------ Next
Next ==
    \/ on_mount
    \/ run_call_later
    \/ action_escalate_to_coder
    \/ route_escalation_requested
    \/ escalate_begin
    \/ escalate_load_failed
    \/ escalate_credential_error
    \/ escalate_load_ok
    \/ escalate_triggered
    \/ action_return_from_coder
    \/ return_requested
    \/ return_cleanup_done
    \/ return_injected
    \/ action_show_agent_picker
    \/ load_begin
    \/ load_cleanup_done
    \/ load_ok
    \/ load_failed
    \/ load_credential_error
    \/ load_needs_account
    \/ finish_ok
    \/ credential_setup_result
    \/ account_selection_result

Spec == Init /\ [][Next]_vars

\* ---------------------------------------------------------------- shutdown
\* on_unmount (lines 1266-1303).

\* Streams of one graph registration.
MaxStreams == 2

\* stream._execution_tasks.get(exec_id) for the current execution id: no task,
\* a task that is not done, a task that is done.
TaskStates == {"none", "running", "done"}
\* get_graph_registration(gid) returned None.
NoReg == <<"None">>
StreamLists == UNION {[1 .. k -> TaskStates] : k \in 0 .. MaxStreams}
\* The registrations of the graphs list_graphs() names, two of them.
Registrations == [1 .. 2 -> StreamLists \cup {NoReg}]

\* "for gid in self.runtime.list_graphs(): reg = ...; if reg:
\* all_streams.extend(reg.streams.values())" (lines 1275-1279).
streams_of(reg) == IF reg = NoReg THEN <<>> ELSE reg
all_streams(regs) == streams_of(regs[1]) \o streams_of(regs[2])

\* "for stream in all_streams: ... if task and not task.done(): task.cancel()
\* ... break" (lines 1280-1291): the streams whose task is cancelled.
\* (EveryRunning is a faulty variant without the break.)
EveryRunning(streams) ==
    SelectSeq([i \in 1 .. Len(streams) |-> i], LAMBDA i : streams[i] = "running")
tasks_cancelled(streams) ==
    LET running == {i \in 1 .. Len(streams) : streams[i] = "running"}
    IN  IF running = {} THEN <<>>
        ELSE <<CHOOSE i \in running : \A j \in running : i <= j>>

\* "if hasattr(self, '_subscription_id') and self.runtime:
\* self.runtime.unsubscribe_from_events(self._subscription_id)" in a try
\* block (lines 1295-1299); the attribute is kept.
unsubscribe_on_unmount(a) ==
    IF a._subscription_id = None \/ a.runtime = None
    THEN a
    ELSE [called(a, Call("unsubscribe_from_events", a.runtime, "", ""))
            EXCEPT !.subs = IF a._subscription_id = a.runtime /\ a.subs[a.runtime] > 0
                            THEN [a.subs EXCEPT ![a.runtime] = @ - 1]
                            ELSE a.subs]

Shutdown(pc, streams, cancelled, waited) ==
    [pc |-> pc, streams |-> streams, cancelled |-> cancelled, waited |-> waited]

\* on_unmount up to its await (lines 1266-1286), or to its end when it awaits
\* nothing.  exec_id: whether chat_repl._current_exec_id is set; lookup_raises:
\* whether list_graphs or get_graph_registration raises (caught at line 1292).
on_unmount ==
    /\ shutdown.pc = "off"
    /\ app.is_ready
    /\ \E exec_id \in BOOLEAN, regs \in Registrations, lookup_raises \in BOOLEAN :
         LET down == [cur EXCEPT !.is_ready = FALSE]
             streams == all_streams(regs)
             looks == down.chat_repl # None /\ exec_id /\ down.runtime # None
             cancelled == IF looks /\ ~lookup_raises
                          THEN tasks_cancelled(streams) ELSE <<>>
             after == [i \in 1 .. Len(streams) |->
                         IF \E k \in 1 .. Len(cancelled) : cancelled[k] = i
                         THEN "cancelling" ELSE streams[i]]
         IN  IF cancelled # <<>>
             THEN /\ app' = down
                  /\ shutdown' = Shutdown("wait", after, cancelled, "")
             ELSE /\ app' = unsubscribe_on_unmount(down)
                  /\ shutdown' = Shutdown("done", after, cancelled, "")
    /\ UNCHANGED <<esc, ret, load, obs, requests, router, discord, registry>>

\* asyncio.wait_for(task, timeout=5.0): the five seconds pass with the task
\* not done; wait_for cancels the task again and goes on awaiting it.
unmount_wait_timeout ==
    /\ shutdown.pc = "wait"
    /\ shutdown' = [shutdown EXCEPT !.pc = "timed_out"]
    /\ UNCHANGED <<app, esc, ret, load, obs, requests, router, discord, registry>>

\* From the end of the wait to the end of on_unmount (lines 1287-1303).
unmount_proceed(streams, waited) ==
    /\ app' = unsubscribe_on_unmount(cur)
    /\ shutdown' = [shutdown EXCEPT !.pc = "done", !.streams = streams, !.waited = waited]
    /\ UNCHANGED <<esc, ret, load, obs, requests, router, discord, registry>>

\* The cancelled task ends: wait_for raises CancelledError, or TimeoutError
\* when the five seconds had passed (line 1287).
unmount_task_ends ==
    /\ shutdown.pc \in {"wait", "timed_out"}
    /\ unmount_proceed([i \in 1 .. Len(shutdown.streams) |->
                            IF shutdown.streams[i] = "cancelling"
                            THEN "done" ELSE shutdown.streams[i]],
                       IF shutdown.pc = "wait" THEN "finished" ELSE "timeout")

\* wait_for raises anything else, the task's own exception or the ValueError
\* for a task of another event loop (line 1289).
unmount_wait_error ==
    /\ shutdown.pc = "wait"
    /\ unmount_proceed(shutdown.streams, "error")

ShutdownNext ==
    \/ on_mount
    \/ run_call_later
    \/ on_unmount
    \/ unmount_wait_timeout
    \/ unmount_task_ends
    \/ unmount_wait_error

\* The event loop runs a cancelled task, which ends at its next await.
ShutdownSpec == Init /\ [][ShutdownNext]_vars /\ WF_vars(unmount_task_ends)


\* ========================================================= event routing
\* _EVENT_TYPES: the event types the dashboard subscribes to.
EventTypes ==
    {"LLM_TEXT_DELTA", "CLIENT_OUTPUT_DELTA", "TOOL_CALL_STARTED",
     "TOOL_CALL_COMPLETED", "EXECUTION_STARTED", "EXECUTION_COMPLETED",
     "EXECUTION_FAILED", "NODE_LOOP_STARTED", "NODE_LOOP_ITERATION",
     "NODE_LOOP_COMPLETED", "CLIENT_INPUT_REQUESTED", "NODE_STALLED",
     "GOAL_PROGRESS", "GOAL_ACHIEVED", "CONSTRAINT_VIOLATION", "STATE_CHANGED",
     "NODE_INPUT_BLOCKED", "CONTEXT_COMPACTED", "NODE_INTERNAL_OUTPUT",
     "JUDGE_VERDICT", "OUTPUT_KEY_SET", "NODE_RETRY", "EDGE_TRAVERSED",
     "EXECUTION_PAUSED", "EXECUTION_RESUMED", "ESCALATION_REQUESTED"}
_LOG_PANE_EVENTS == EventTypes \ {"LLM_TEXT_DELTA", "CLIENT_OUTPUT_DELTA"}

\* event.graph_id: None or the id of a graph of the runtime.
NoGraph == "-"
GraphIds == {"A", "B"}
\* event.data["content"] of a NODE_INTERNAL_OUTPUT event: blank or not.
Contents == {"", "text"}

Event(type, graph_id, node_id, reason, context, content) ==
    [type |-> type, graph_id |-> graph_id, node_id |-> node_id,
     reason |-> reason, context |-> context, content |-> content]
\* The events a runtime emits; only the data _route_event reads is kept.
Events ==
    {Event(t, g, "", "", "", "") :
        t \in EventTypes \ {"ESCALATION_REQUESTED", "NODE_INTERNAL_OUTPUT"},
        g \in GraphIds \cup {NoGraph}}
    \cup {Event("ESCALATION_REQUESTED", g, n, r, c, "") :
            g \in GraphIds \cup {NoGraph}, n \in NodeIds, r \in Reasons, c \in Contexts}
    \cup {Event("NODE_INTERNAL_OUTPUT", g, "", "", "", c) :
            g \in GraphIds \cup {NoGraph}, c \in Contents}

\* One call made while routing: the object called and its method.
SinkCall(sink, handler) == [sink |-> sink, handler |-> handler]

\* "--- Chat REPL events ---" (lines 928-985): the chat_repl method an event
\* is handed to ("" when none); an escalation request also starts the
\* escalation worker.
chat_repl_handler(e) ==
    CASE e.type \in {"LLM_TEXT_DELTA", "CLIENT_OUTPUT_DELTA"} -> "handle_text_delta"
      [] e.type = "TOOL_CALL_STARTED" -> "handle_tool_started"
      [] e.type = "TOOL_CALL_COMPLETED" -> "handle_tool_completed"
      [] e.type = "EXECUTION_COMPLETED" -> "handle_execution_completed"
      [] e.type = "EXECUTION_FAILED" -> "handle_execution_failed"
      [] e.type = "CLIENT_INPUT_REQUESTED" -> "handle_input_requested"
      [] e.type = "ESCALATION_REQUESTED" -> "handle_escalation_requested"
      [] e.type = "NODE_LOOP_STARTED" -> "handle_node_started"
      [] e.type = "NODE_LOOP_ITERATION" -> "handle_loop_iteration"
      [] e.type = "NODE_LOOP_COMPLETED" -> "handle_node_completed"
      [] e.type = "NODE_INTERNAL_OUTPUT" ->
            IF e.content # "" THEN "handle_internal_output" ELSE ""
      [] e.type = "EXECUTION_PAUSED" -> "handle_execution_paused"
      [] e.type = "EXECUTION_RESUMED" -> "handle_execution_resumed"
      [] e.type = "GOAL_ACHIEVED" -> "handle_goal_achieved"
      [] e.type = "CONSTRAINT_VIOLATION" -> "handle_constraint_violation"
      [] OTHER -> ""

\* "--- Graph view events ---" (lines 987-1029).
graph_view_handler(e) ==
    CASE e.type \in {"EXECUTION_STARTED", "EXECUTION_COMPLETED", "EXECUTION_FAILED"}
            -> "update_execution"
      [] e.type = "NODE_LOOP_STARTED" -> "handle_node_loop_started"
      [] e.type = "NODE_LOOP_ITERATION" -> "handle_node_loop_iteration"
      [] e.type = "NODE_LOOP_COMPLETED" -> "handle_node_loop_completed"
      [] e.type = "NODE_STALLED" -> "handle_stalled"
      [] e.type \in {"TOOL_CALL_STARTED", "TOOL_CALL_COMPLETED"} -> "handle_tool_call"
      [] e.type = "EDGE_TRAVERSED" -> "handle_edge_traversed"
      [] OTHER -> ""

\* "--- Status bar events ---" (lines 1031-1071).
status_bar_handler(e) ==
    CASE e.type = "EXECUTION_STARTED" -> "set_running"
      [] e.type = "EXECUTION_COMPLETED" -> "set_completed"
      [] e.type = "EXECUTION_FAILED" -> "set_failed"
      [] e.type = "NODE_LOOP_STARTED" -> "set_active_node"
      [] e.type \in {"NODE_LOOP_ITERATION", "TOOL_CALL_STARTED", "TOOL_CALL_COMPLETED",
                     "NODE_STALLED", "CONTEXT_COMPACTED", "JUDGE_VERDICT",
                     "OUTPUT_KEY_SET", "NODE_RETRY", "EXECUTION_PAUSED",
                     "EXECUTION_RESUMED"} -> "set_node_detail"
      [] OTHER -> ""

\* "--- Log events (inline in chat) ---" (lines 1073-1075).
log_pane_handler(e) == IF e.type \in _LOG_PANE_EVENTS THEN "write_log_event" ELSE ""

OneCall(sink, handler) == IF handler = "" THEN <<>> ELSE <<SinkCall(sink, handler)>>

\* The calls _route_event makes for a foreground event when none raises, in
\* program order.  graph_view is mounted and unmounted together with
\* chat_repl, so it is not None here.
routed_calls(e) ==
    OneCall("chat_repl", chat_repl_handler(e))
    \o (IF e.type = "ESCALATION_REQUESTED"
        THEN <<SinkCall("app", "_do_escalate_to_coder")>> ELSE <<>>)
    \o OneCall("graph_view", graph_view_handler(e))
    \o OneCall("status_bar", status_bar_handler(e))
    \o OneCall("log_pane", log_pane_handler(e))

\* What one run of _route_event did.
RouteResult(outcome, calls, notified, logged) ==
    [outcome |-> outcome, calls |-> calls, notified |-> notified, logged |-> logged]

\* The sink whose method raises when called ("none": no sink raises).
RaisingSinks == {"none", "chat_repl", "graph_view", "status_bar", "log_pane"}

\* "--- Multi-graph filtering ---": the test of line 905.
\* (NeverBackground is a faulty variant without the filter.)
NeverBackground(e, active_graph_id) == FALSE
is_background(e, active_graph_id) ==
    e.graph_id # NoGraph /\ e.graph_id # active_graph_id

\* The calls made up to and including the first one that raises.
UpToRaise(calls, raising) ==
    LET at == {i \in 1 .. Len(calls) : calls[i].sink = raising}
    IN  IF at = {} THEN calls
        ELSE SubSeq(calls, 1, CHOOSE i \in at : \A j \in at : i <= j)

\* "if not self.is_ready or self.chat_repl is None: return" (lines 896-897).
\* (OnlyChatRepl is a faulty variant that does not look at is_ready.)
OnlyChatRepl(a) == a.chat_repl = None
not_routable(a) == ~a.is_ready \/ a.chat_repl = None

\* _route_event(event) in app state a, with the runtime's active_graph_id
\* and the sink that raises.  Everything after the guard runs in one try
\* block whose handler logs "Route failed ...".
_route_event(a, e, active_graph_id, raising) ==
    IF not_routable(a)
    THEN RouteResult("dropped", <<>>, 0, FALSE)
    ELSE IF e.graph_id # NoGraph /\ a.runtime = None
    THEN RouteResult("failed", <<>>, 0, TRUE)
    ELSE IF is_background(e, active_graph_id)
    THEN RouteResult("background", <<>>,
             IF e.type \in {"CLIENT_INPUT_REQUESTED", "EXECUTION_FAILED",
                            "EXECUTION_COMPLETED"} THEN 1 ELSE 0,
             FALSE)
    ELSE LET planned == routed_calls(e)
             \* status_bar.set_active_node needs self.runtime.graph.get_node
             reachable == IF a.runtime = None /\ e.type = "NODE_LOOP_STARTED"
                          THEN SelectSeq(planned, LAMBDA c :
                                   c.sink \notin {"status_bar", "log_pane"})
                          ELSE planned
             made == UpToRaise(reachable, raising)
             raised == \/ reachable # planned
                       \/ \E i \in 1 .. Len(reachable) : reachable[i].sink = raising
         IN  RouteResult(IF raised THEN "failed" ELSE "routed", made, 0, raised)

\* The notification of a background event, by severity (lines 906-924).
background_notice(a, e) ==
    CASE e.type = "CLIENT_INPUT_REQUESTED" -> notify(a, "is waiting for input")
      [] e.type = "EXECUTION_FAILED" -> notify(a, "failed")
      [] OTHER -> inform(a)

\* An event reaches _route_event on the Textual thread.  It was emitted by a
\* runtime the dashboard holds a subscription on, or by a suspended runtime
\* (its frame is on the stack) before the dashboard unsubscribed.
route_event ==
    /\ router.pc = "off"
    /\ \/ \E h \in Handles : app.subs[h] > 0
       \/ app._escalation_stack # <<>>
    /\ \E e \in Events, active_graph_id \in GraphIds, raising \in RaisingSinks :
         LET res == _route_event(cur, e, active_graph_id, raising)
         IN  /\ router' = [pc |-> "routed", event |-> e,
                           active_graph_id |-> active_graph_id,
                           raising |-> raising, result |-> res]
             /\ app' = IF res.outcome = "background"
                       THEN background_notice(cur, e) ELSE cur
             /\ esc' = IF SinkCall("app", "_do_escalate_to_coder") \in
                            {res.calls[i] : i \in 1 .. Len(res.calls)}
                       THEN start_escalation_worker(e.node_id, e.reason, e.context)
                       ELSE esc
    /\ obs' = ObsReset("route_event")
    /\ UNCHANGED <<ret, load, requests, discord, registry, shutdown>>

\* _route_event returns to the event loop; what it did is no longer at hand.
route_return ==
    /\ router.pc = "routed"
    /\ router' = RouterOff
    /\ UNCHANGED <<app, esc, ret, load, obs, requests, discord, registry, shutdown>>

\* _route_event is synchronous: no other handler runs before it returns.
NotRouting == router.pc = "off"

RouteNext ==
    \/ NotRouting /\ on_mount
    \/ NotRouting /\ run_call_later
    \/ NotRouting /\ action_escalate_to_coder
    \/ NotRouting /\ escalate_begin
    \/ NotRouting /\ escalate_load_failed
    \/ route_event
    \/ route_return

RouteSpec == Init /\ [][RouteNext]_vars

\* Routing while the app shuts down: on_unmount clears is_ready and may await
\* a cancelled task, and events still arrive.
\* Streams met by on_unmount in the runs of DropSpec.
MaxDropStreams == 1

DropNext ==
    \/ NotRouting /\ on_mount
    \/ NotRouting /\ run_call_later
    \/ NotRouting /\ action_escalate_to_coder
    \/ NotRouting /\ escalate_begin
    \/ NotRouting /\ escalate_load_failed
    \/ NotRouting /\ on_unmount /\ Len(shutdown'.streams) <= MaxDropStreams
    \/ NotRouting /\ unmount_wait_timeout
    \/ NotRouting /\ unmount_task_ends
    \/ NotRouting /\ unmount_wait_error
    \/ route_event
    \/ route_return

DropSpec == Init /\ [][DropNext]_vars

\* ======================================================= thread bridging
\* Events one runtime emits in one run.
MaxEvents == 3
\* Types that reach all sinks, the transcript only, all but the transcript.
BridgedTypes == {"TOOL_CALL_STARTED", "LLM_TEXT_DELTA", "EXECUTION_STARTED"}

\* Between the EventBus and the sinks: the events emitted so far (numbered in
\* emission order), the _route_event callbacks call_from_thread has queued on
\* the Textual loop, the events passed to _route_event and what each sink saw;
\* the events for which call_from_thread raised and the errors logged; the
\* events that reached a sink mounted for another runtime than their emitter.
BridgeStart ==
    [pc |-> "bridge", emitted |-> 0, inflight |-> <<>>, routed |-> <<>>,
     failed |-> <<>>, logged |-> <<>>, superseded |-> <<>>,
     observed |-> [s \in {"chat_repl", "graph_view", "status_bar", "log_pane"} |-> <<>>]]
bridge == IF router.pc = "off" THEN BridgeStart ELSE router

\* self._route_event(event) runs on the Textual thread for the event numbered n.
routed_on_textual_thread(b, n, e) ==
    LET res == _route_event(cur, e, "A", "none")
        seen == {res.calls[i].sink : i \in 1 .. Len(res.calls)}
    IN  [b EXCEPT !.routed = Append(@, n),
                  !.observed = [s \in DOMAIN @ |->
                                   IF s \in seen THEN Append(@[s], n) ELSE @[s]]]

\* The EventBus calls the handler of a live subscription with the next event
\* of the runtime.
NextEvent(b) == b.emitted + 1
Emitting ==
    /\ router.pc \in {"off", "bridge"}
    /\ app.runtime # None /\ app.subs[app.runtime] > 0
    /\ bridge.emitted < MaxEvents

\* _handle_event with threading.get_ident() == self._thread_id: "Already on
\* Textual's thread - call directly."
handle_event_direct(b, n, e) ==
    routed_on_textual_thread([b EXCEPT !.emitted = n], n, e)

\* _handle_event on any other thread: self.call_from_thread(self._route_event,
\* event) queues the call on the Textual loop (the caller waits for it).
handle_event_bridged(b, n, e) ==
    [b EXCEPT !.emitted = n,
              !.inflight = Append(@, [n |-> n, event |-> e, on |-> app.runtime])]

emit_on_textual_thread ==
    /\ Emitting
    /\ \E t \in BridgedTypes :
         router' = handle_event_direct(bridge, NextEvent(bridge),
                                       Event(t, NoGraph, "", "", "", ""))
    /\ UNCHANGED <<app, esc, ret, load, obs, requests, discord, registry, shutdown>>

\* _handle_event on another thread when call_from_thread raises (the Textual
\* loop is gone): "except Exception as e: logging.getLogger("tui.events")
\* .error(...)" (lines 886-892).
\* (RoutesAfterFailure is a faulty variant that falls back to a direct call.)
RoutesAfterFailure(b, n, e) ==
    routed_on_textual_thread([b EXCEPT !.emitted = n, !.logged = Append(@, n)], n, e)
handle_event_failed(b, n, e) ==
    [b EXCEPT !.emitted = n, !.logged = Append(@, n)]

emit_on_other_thread ==
    /\ Emitting
    /\ \E t \in BridgedTypes, raises \in BOOLEAN :
         LET n == NextEvent(bridge)
             e == Event(t, NoGraph, "", "", "", "")
         IN  router' =
               IF raises
               THEN handle_event_failed([bridge EXCEPT !.failed = Append(@, n)], n, e)
               ELSE handle_event_bridged(bridge, n, e)
    /\ UNCHANGED <<app, esc, ret, load, obs, requests, discord, registry, shutdown>>

\* The Textual loop runs the oldest queued _route_event call.
deliver_bridged ==
    /\ router.pc = "bridge" /\ router.inflight # <<>>
    /\ LET head == Head(router.inflight)
           routed == routed_on_textual_thread(
                         [router EXCEPT !.inflight = Tail(@)], head.n, head.event)
       IN  router' = IF routed.observed # router.observed /\ head.on # app.chat_repl
                     THEN [routed EXCEPT !.superseded = Append(@, head.n)]
                     ELSE routed
    /\ UNCHANGED <<app, esc, ret, load, obs, requests, discord, registry, shutdown>>

BridgeNext ==
    \/ on_mount
    \/ run_call_later
    \/ emit_on_textual_thread
    \/ emit_on_other_thread
    \/ deliver_bridged

BridgeSpec == Init /\ [][BridgeNext]_vars

\* Events bridged from the agent thread while an escalate replaces the
\* runtime they come from.
SupersedeNext ==
    \/ on_mount
    \/ run_call_later
    \/ emit_on_other_thread
    \/ deliver_bridged
    \/ action_escalate_to_coder
    \/ escalate_begin
    \/ escalate_load_ok
    \/ escalate_triggered
    \/ escalate_load_failed

SupersedeSpec == Init /\ [][SupersedeNext]_vars

\* ========================================================== Discord tool
\* tools/discord_tool/discord_tool.py: discord_send_message and
\* _DiscordClient._request_with_retry.
MAX_MESSAGE_LENGTH == 2000
MAX_RETRIES == 2
MAX_RETRY_WAIT == 60

\* len(content) of the message to send.
ContentLengths == {0, 1, MAX_MESSAGE_LENGTH - 1, MAX_MESSAGE_LENGTH,
                   MAX_MESSAGE_LENGTH + 1, 2 * MAX_MESSAGE_LENGTH}
\* An HTTP response: its status, whether response.json() parses, and the
\* retry_after of its body in seconds (Absent: the key is missing).
Absent == -1
RetryAfters == {0, 1, 5, MAX_RETRY_WAIT, MAX_RETRY_WAIT + 15}
Response(status, body, retry_after) ==
    [status |-> status, body |-> body, retry_after |-> retry_after]
Responses ==
    {Response(st, b, Absent) : st \in {200, 204, 404}, b \in {"json", "invalid"}}
    \cup {Response(429, "json", ra) : ra \in RetryAfters \cup {Absent}}
    \cup {Response(429, "invalid", Absent)}

Min(x, y) == IF x <= y THEN x ELSE y
Pow2(n) == IF n = 0 THEN 1 ELSE IF n = 1 THEN 2 ELSE 4

\* _handle_response (lines 64-91).
\* (DropsRetryAfter is a faulty variant whose rate-limit dict lacks retry_after.)
DropsRetryAfter(r) ==
    IF r.status = 204 THEN [kind |-> "success"]
    ELSE IF r.status = 429 THEN [kind |-> "error", error |-> "rate limit"]
    ELSE IF r.status # 200 THEN [kind |-> "error", error |-> "HTTP", status |-> r.status]
    ELSE IF r.body = "json" THEN [kind |-> "data"] ELSE [kind |-> "raised"]
_handle_response(r) ==
    IF r.status = 204 THEN [kind |-> "success"]
    ELSE IF r.status = 429
    THEN [kind |-> "error", error |-> "rate limit",
          retry_after |-> IF r.body = "json" /\ r.retry_after # Absent
                          THEN r.retry_after ELSE 60]
    ELSE IF r.status # 200 THEN [kind |-> "error", error |-> "HTTP", status |-> r.status]
    ELSE IF r.body = "json" THEN [kind |-> "data"] ELSE [kind |-> "raised"]

\* The wait before a retry (lines 53-57).
\* (Uncapped is a faulty variant without the cap of MAX_RETRY_WAIT.)
Uncapped(r, attempt) ==
    IF r.body = "json"
    THEN IF r.retry_after = Absent THEN 1 ELSE r.retry_after
    ELSE Pow2(attempt)
retry_wait(r, attempt) ==
    IF r.body = "json"
    THEN Min(IF r.retry_after = Absent THEN 1 ELSE r.retry_after, MAX_RETRY_WAIT)
    ELSE Min(Pow2(attempt), MAX_RETRY_WAIT)

\* "if response.status_code == 429 and attempt < MAX_RETRIES" (line 52).
should_retry(r, attempt) == r.status = 429 /\ attempt < MAX_RETRIES

\* What the tool returns for the client's result (lines 243-246): an error
\* dict as it is, anything else wrapped.
tool_result(result) ==
    IF result.kind \in {"error", "raised"} THEN result
    ELSE [kind |-> "sent", message |-> result]

\* The length check of discord_send_message (line 233).
\* (RejectsAtLimit is a faulty variant with >= for >.)
RejectsAtLimit(n) == n >= MAX_MESSAGE_LENGTH
too_long(n) == n > MAX_MESSAGE_LENGTH

\* discord_send_message(channel_id, content) is called; token: whether
\* _get_token finds a bot token.
discord_send_message ==
    /\ discord.pc = "off"
    /\ \E n \in ContentLengths, token \in BOOLEAN :
         LET call == [pc |-> "done", provided |-> n, token |-> token, attempt |-> 0,
                      responses |-> <<>>, sleeps |-> <<>>, requests |-> 0,
                      result |-> [kind |-> "none"]]
         IN  discord' =
               IF too_long(n)
               THEN [call EXCEPT !.result =
                        [kind |-> "error", error |-> "too long",
                         max_length |-> MAX_MESSAGE_LENGTH, provided |-> n]]
               ELSE IF ~token
               THEN [call EXCEPT !.result =
                        [kind |-> "error", error |-> "not configured"]]
               ELSE [call EXCEPT !.pc = "request"]
    /\ UNCHANGED <<app, esc, ret, load, obs, requests, router, registry, shutdown>>

\* httpx.request returns a response inside the loop of _request_with_retry
\* (lines 50-62).
http_response ==
    /\ discord.pc = "request"
    /\ \E r \in Responses :
         LET got == [discord EXCEPT !.requests = @ + 1, !.responses = Append(@, r)]
         IN  discord' =
               IF should_retry(r, discord.attempt)
               THEN LET slept == [got EXCEPT
                                    !.sleeps = Append(@, retry_wait(r, discord.attempt)),
                                    !.attempt = @ + 1]
                    IN  IF slept.attempt < MAX_RETRIES + 1
                        THEN slept
                        ELSE [slept EXCEPT !.pc = "done",
                                !.result = tool_result(_handle_response(r))]
               ELSE [got EXCEPT !.pc = "done",
                       !.result = tool_result(_handle_response(r))]
    /\ UNCHANGED <<app, esc, ret, load, obs, requests, router, registry, shutdown>>

\* httpx.request raises TimeoutException or RequestError (lines 247-250).
http_error ==
    /\ discord.pc = "request"
    /\ \E error \in {"Request timed out", "Network error"} :
         discord' = [discord EXCEPT !.requests = @ + 1, !.pc = "done",
                       !.result = [kind |-> "error", error |-> error]]
    /\ UNCHANGED <<app, esc, ret, load, obs, requests, router, registry, shutdown>>

DiscordNext ==
    \/ discord_send_message
    \/ http_response
    \/ http_error

DiscordSpec == Init /\ [][DiscordNext]_vars

\* ------------------------------------------- LocalCredentialRegistry
\* (core/framework/credentials/local/registry.py).  The storage is a map
\* from storage ids to credential objects; extra_keys is None.

\* Calls of the registry in one behaviour.
MaxOps == 3

ApiKeys == {"", "key-1", "key-2"}
\* check_credential_health returns a valid or an invalid result, or raises.
HealthOutcomes == {"valid", "invalid", "raised"}
NotRun == "not run"
\* What get_key returns for an account that is not stored.
NotFound == "-"

\* f"{credential_id}{_SEPARATOR}{alias}" (lines 153, 191, 228).
storage_id(credential_id, alias) == <<credential_id, _SEPARATOR, alias>>

\* get_account (lines 189-191): NoAccount stands for None.
get_account(r, credential_id, alias) == r.storage[storage_id(credential_id, alias)]

\* get_key (lines 193-208) for key_name "api_key".
get_key(r, credential_id, alias) ==
    LET cred == get_account(r, credential_id, alias)
    IN  IF cred = NoAccount THEN NotFound ELSE cred.api_key

\* The status save_account stores (lines 136-151).
\* (AlwaysActive is a faulty variant that ignores the health check.)
AlwaysActive(run_health_check, health) == "active"
save_status(run_health_check, health) ==
    IF ~run_health_check THEN "active"
    ELSE IF health = "raised" THEN "unknown"
    ELSE IF health = "valid" THEN "active" ELSE "failed"

\* The status validate_account stores (lines 258-273).
\* (UnknownOnRaise is a faulty variant that stores "unknown" when the check
\* raised.)
UnknownOnRaise(health) ==
    IF health = "valid" THEN "active"
    ELSE IF health = "raised" THEN "unknown" ELSE "failed"
validate_status(health) == IF health = "valid" THEN "active" ELSE "failed"

RegistryRest == <<app, esc, ret, load, obs, requests, router, discord, shutdown>>

\* save_account(credential_id, alias, api_key, run_health_check) (lines 109-183).
save_account ==
    /\ registry.ops < MaxOps
    /\ \E credential_id \in CredentialIds, given \in Aliases, api_key \in ApiKeys,
          run_health_check \in BOOLEAN, health \in HealthOutcomes :
         LET alias == IF given = "" THEN "default" ELSE given
             status == save_status(run_health_check, health)
             cred_obj == [api_key |-> api_key, _alias |-> alias,
                          _integration_type |-> credential_id, _status |-> status,
                          last_refreshed |-> run_health_check]
         IN  registry' =
               [storage |-> [registry.storage EXCEPT
                               ![storage_id(credential_id, alias)] = cred_obj],
                ops |-> registry.ops + 1,
                last |-> [op |-> "save_account", credential_id |-> credential_id,
                          alias |-> given, api_key |-> api_key,
                          health |-> IF run_health_check THEN health ELSE NotRun,
                          outcome |-> "returned", status |-> status]]
    /\ UNCHANGED RegistryRest

\* validate_account(credential_id, alias) (lines 234-286).
validate_account ==
    /\ registry.ops < MaxOps
    /\ \E credential_id \in CredentialIds, alias \in Aliases \cup StoredAliases,
          health \in HealthOutcomes :
         LET cred == get_account(registry, credential_id, alias)
             call == [op |-> "validate_account", credential_id |-> credential_id,
                      alias |-> alias, health |-> NotRun, outcome |-> "returned",
                      valid |-> FALSE]
             done(l) == [registry EXCEPT !.ops = @ + 1, !.last = l]
         IN  registry' =
               IF cred = NoAccount
               THEN done([call EXCEPT !.outcome = "KeyError"])
               ELSE IF cred.api_key = ""
               THEN done(call)
               ELSE [done([call EXCEPT !.health = health, !.valid = health = "valid"])
                       EXCEPT !.storage[storage_id(credential_id, alias)] =
                                [cred EXCEPT !._status = validate_status(health),
                                             !.last_refreshed = TRUE]]
    /\ UNCHANGED RegistryRest

\* delete_account(credential_id, alias) (lines 221-228).
delete_account ==
    /\ registry.ops < MaxOps
    /\ \E credential_id \in CredentialIds, alias \in Aliases \cup StoredAliases :
         registry' =
           [storage |-> [registry.storage EXCEPT
                           ![storage_id(credential_id, alias)] = NoAccount],
            ops |-> registry.ops + 1,
            last |-> [op |-> "delete_account", credential_id |-> credential_id,
                      alias |-> alias, outcome |-> "returned",
                      existed |-> get_account(registry, credential_id, alias) # NoAccount]]
    /\ UNCHANGED RegistryRest

RegistryNext ==
    \/ save_account
    \/ validate_account
    \/ delete_account

RegistrySpec == Init /\ [][RegistryNext]_vars

\* ================================================================ claims

\* C1: after N >= 1 successful escalates followed by N returns, nothing else
\* interleaved, starting from an active runtime and an empty stack,
\* self.runtime and self._runner are the original ones and the stack is empty.
\* (obs.shadow lists what was active before each escalate of the sequence,
\* obs.m counts the returns that have run to their end.)
StackDiscipline ==
    (obs.phase = "ret" /\ ret.pc = "idle" /\ obs.m = Len(obs.shadow))
        => /\ app.runtime = obs.shadow[1][1]
           /\ app._runner = obs.shadow[1][2]
           /\ app._escalation_stack = <<>>

\* Two escalates and then two returns have run.
StackDisciplineWitness ==
    obs.phase = "ret" /\ ret.pc = "idle" /\ obs.m = 2 /\ Len(obs.shadow) = 2

\* C2: frames leave the stack in reverse order of insertion: a step changes
\* the stack only by appending the one frame of the escalate that begins, or
\* by removing its last frame; and in an uninterrupted sequence of escalates
\* and returns the m-th return restores the runtime that was active just
\* before the m-th last escalate.
LifoRestore ==
    (obs.phase = "ret" /\ ret.pc = "idle" /\ obs.m >= 1)
        => app.runtime = obs.shadow[Len(obs.shadow) - obs.m + 1][1]
LifoStep ==
    \/ stack' = stack
    \/ /\ esc.pc = "start" /\ esc'.pc = "load"
       /\ stack' = Append(stack, [runner |-> app._runner, runtime |-> app.runtime,
                                  blocked_node_id |-> esc.node])
    \/ stack # <<>> /\ stack' = Front(stack)
StrictLifo == [](LifoRestore) /\ [][LifoStep]_vars

\* The first of two returns has restored the first escalation target.
StrictLifoWitness ==
    /\ obs.phase = "ret" /\ ret.pc = "idle" /\ obs.m = 1 /\ Len(obs.shadow) = 2
    /\ app.runtime = obs.shadow[2][1] /\ app.runtime # obs.shadow[1][1]

\* C3: right after an escalate whose load failed (any exception, a
\* CredentialError included), self.runtime, self._runner and the depth of
\* the stack are what they were before the escalate.
RollbackOnLoadFailure ==
    obs.pre # NoPre
        => /\ app.runtime = obs.pre.runtime
           /\ app._runner = obs.pre.runner
           /\ Depth = obs.pre.depth

\* C8: a return called with an empty stack raises the warning and changes
\* nothing else: runtime, runner, stack, subscription, widgets, cleanups, the
\* workers.
ReturnCalled == action_return_from_coder \/ return_requested
ReturnWithoutEscalation ==
    [][(ReturnCalled /\ stack = <<>>)
          => /\ app' = notify(cur, "No escalation to return from")
             /\ <<esc, ret, load>>' = <<esc, ret, load>>]_vars

\* The warning was raised while a runtime was active and subscribed.
ReturnWithoutEscalationWitness ==
    /\ app.notice = "No escalation to return from"
    /\ app.runtime # None /\ app._subscription_id = app.runtime
    /\ app.chat_repl = app.runtime


\* C4: while an escalate is suspended at an await (loading hive_coder,
\* awaiting the trigger) no step of a return runs.
EscalateSuspended == esc.pc \in {"load", "trigger"}
ReturnStep ==
    \/ action_return_from_coder
    \/ return_requested
    \/ return_cleanup_done
    \/ return_injected
ExclusiveEscalation == [][EscalateSuspended => ~ReturnStep]_vars

\* C5: the app holds at most one live subscription, and that one is on
\* the current self.runtime.
LiveOn(h) == app.subs[h]
OthersSubscribed == \E h \in Handles : h # app.runtime /\ LiveOn(h) > 0
AtMostOneSubscription ==
    /\ ~OthersSubscribed
    /\ app.runtime # None => LiveOn(app.runtime) <= 1

\* C6: between operations the stack is non-empty exactly when self.runtime
\* is a hive_coder runtime loaded by an escalate.
Escalated == app.runtime # None /\ app.loaded_by[app.runtime] = "escalate"
NormalOrEscalated == Quiescent => (stack # <<>> <=> Escalated)

\* C7: while a frame is on the stack, cleanup_async is not called on the
\* runner it saved.
SavedRunners == {stack[i].runner : i \in 1 .. Len(stack)} \ {None}
NoCleanupOfSavedRunner ==
    [][\A r \in SavedRunners : app'.cleanups[r] = app.cleanups[r]]_vars

\* C9: when an escalate or a return ends, whatever failed in it,
\* self.runtime is not None, the mounted widgets are bound to it, it carries
\* exactly one live subscription (or the callback that subscribes is
\* queued) and no other runtime carries one.
Consistent(a) ==
    /\ a.runtime # None
    /\ a.chat_repl = a.runtime
    /\ a.subs[a.runtime] = 1 \/ (a.subs[a.runtime] = 0 /\ a.call_later > 0)
    /\ \A h \in Handles : h # a.runtime => a.subs[h] = 0
EscalateEnds == esc.pc \in {"load", "trigger"} /\ esc'.pc = "idle"
ReturnEnds ==
    /\ stack # <<>>
    /\ \/ ReturnCalled /\ ret'.pc = "idle"
       \/ ret.pc # "idle" /\ ret'.pc = "idle"
ConsistentAfterFailure ==
    [][(EscalateEnds \/ ReturnEnds) => Consistent(app')]_vars

\* C10: self.runtime is None implies that no subscription token is held.
NoTokenWithoutRuntime == app.runtime = None => app._subscription_id = None

\* C14: a return that pops a frame with a non-empty blocked_node_id invokes
\* inject_input exactly once, on the restored runtime, with the frame's node
\* id and the summary (the default completion message when the summary is
\* empty); a return that pops a frame with an empty blocked_node_id, and
\* every other step, invokes inject_input never.
InjectCalls(a) == SelectSeq(a.calls, LAMBDA c : c.op = "inject_input")
ReturnPops == /\ ReturnCalled \/ return_cleanup_done
              /\ stack # <<>> /\ stack' = Front(stack)
ReturnMsg == LET summary == IF ret.pc = "cleanup" THEN ret.summary
                            ELSE IF ret'.pc = "inject" THEN ret'.summary ELSE ""
             IN  IF summary # "" THEN summary ELSE DefaultReturnMsg
InjectOnce ==
    [][IF ReturnPops /\ Last(stack).blocked_node_id # ""
       THEN /\ InjectCalls(app') = <<Call("inject_input", Last(stack).runtime,
                                          Last(stack).blocked_node_id, ReturnMsg)>>
            /\ app'.runtime = Last(stack).runtime
       ELSE InjectCalls(app') = <<>>]_vars
InjectOnceWitness ==
    /\ InjectCalls(app) = <<Call("inject_input", app.runtime, "n1", "done")>>
    /\ ret.pc = "inject"

\* C15: detaching twice in a row, with no subscribe in between, raises no
\* error and calls runtime.unsubscribe_from_events once in total (for the
\* subscription the first detach found); the second detach calls nothing and
\* changes nothing, and no step taken without a token unsubscribes anything.
UnsubCalls(a) == SelectSeq(a.calls, LAMBDA c : c.op = "unsubscribe_from_events")
DetachTwice ==
    LET once == _unmount_agent_widgets(cur)
        between == [once EXCEPT !.calls = <<>>]
        twice == _unmount_agent_widgets(between)
    IN  /\ Len(UnsubCalls(once))
             = IF app._subscription_id # None /\ app.runtime # None THEN 1 ELSE 0
        /\ UnsubCalls(twice) = <<>>
        /\ twice = between
NoUnsubscribeWithoutToken ==
    app._subscription_id = None
        => /\ UnsubCalls(app') = <<>>
           /\ \A h \in Handles : app'.subs[h] >= app.subs[h]
IdempotentDetach == [](DetachTwice) /\ [][NoUnsubscribeWithoutToken]_vars
IdempotentDetachWitness ==
    /\ esc.pc = "load" /\ load.pc = "cleanup"
    /\ app.runtime # None /\ app.chat_repl = None
    /\ app._subscription_id = None /\ app.calls = <<>>

\* C16: in every reachable state exactly one of the two Ctrl+E actions is
\* valid: escalate_to_coder iff the stack depth is 0, return_from_coder iff
\* it is greater than 0; and Ctrl+E runs only the valid one.
CtrlEToggle ==
    /\ check_action(app, "escalate_to_coder") <=> Depth = 0
    /\ check_action(app, "return_from_coder") <=> Depth > 0
    /\ check_action(app, "escalate_to_coder") # check_action(app, "return_from_coder")
CtrlERuns ==
    /\ action_escalate_to_coder => Depth = 0
    /\ action_return_from_coder => Depth > 0
ExactlyOneCtrlE == [](CtrlEToggle) /\ [][CtrlERuns]_vars
ExactlyOneCtrlEWitness ==
    /\ Depth > 0 /\ ret.pc = "cleanup" /\ app.cleanups[app._runner] = 1
    /\ check_action(app, "return_from_coder")
    /\ ~check_action(app, "escalate_to_coder")

\* C17: the instruction built for the escalation target has the
\* worker-location preamble, the reason section and the context section each
\* iff the worker path, reason, context is non-empty, in that order, and is
\* the generic fallback instruction iff all three are empty.
SectionRank == [location |-> 1, problem |-> 2, context |-> 3, fallback |-> 4]
HasSection(parts, section, text) ==
    \E i \in 1 .. Len(parts) : parts[i] = Part(section, text)
Sections(parts) == {parts[i].section : i \in 1 .. Len(parts)}
WellBuilt(parts, reason, context, path) ==
    /\ "location" \in Sections(parts) <=> path # ""
    /\ "problem" \in Sections(parts) <=> reason # ""
    /\ "context" \in Sections(parts) <=> context # ""
    /\ path # "" => HasSection(parts, "location", path)
    /\ reason # "" => HasSection(parts, "problem", reason)
    /\ context # "" => HasSection(parts, "context", context)
    /\ \A i, j \in 1 .. Len(parts) :
          i < j => SectionRank[parts[i].section] < SectionRank[parts[j].section]
    /\ "fallback" \in Sections(parts) <=> (path = "" /\ reason = "" /\ context = "")
    /\ "fallback" \in Sections(parts) => parts = Fallback
TriggerCalls(a) == SelectSeq(a.calls, LAMBDA c : c.op = "trigger")
EscalationInputSections ==
    [][TriggerCalls(app') # <<>>
          => /\ Len(TriggerCalls(app')) = 1
             /\ WellBuilt(esc'.input, esc.reason, esc.context, esc.worker_path)]_vars
EscalationInputSectionsWitness ==
    /\ esc.pc = "trigger" /\ esc.reason # "" /\ esc.context = ""
    /\ TriggerCalls(app) # <<>>
    /\ esc.input = <<Part("location", esc.worker_path), Part("problem", esc.reason)>>

\* C11: for an event that passes the guard of _route_event and whose graph_id
\* is set and differs from the runtime's active_graph_id, no call is made on
\* the transcript, graph view or status bar (no escalation is started
\* either); exactly one notification is raised when the type is
\* EXECUTION_FAILED, EXECUTION_COMPLETED or CLIENT_INPUT_REQUESTED and none
\* for every other type.
Notifying == {"EXECUTION_FAILED", "EXECUTION_COMPLETED", "CLIENT_INPUT_REQUESTED"}
BackgroundRouted ==
    /\ router.pc = "routed"
    /\ app.is_ready /\ app.chat_repl # None /\ app.runtime # None
    /\ router.event.graph_id # NoGraph
    /\ router.event.graph_id # router.active_graph_id
GraphFilter ==
    BackgroundRouted
        => /\ router.result.calls = <<>>
           /\ ~router.result.logged
           /\ router.result.notified = IF router.event.type \in Notifying THEN 1 ELSE 0
           /\ router.event.type = "EXECUTION_FAILED" => app.notice = "failed"
           /\ router.event.type \notin Notifying => app.notice = ""
GraphFilterWitness ==
    /\ BackgroundRouted
    /\ router.event.type = "EXECUTION_FAILED"
    /\ router.event.graph_id = "B" /\ router.active_graph_id = "A"
    /\ router.result.notified = 1 /\ router.result.calls = <<>>

\* C13: when one sink raises while handling a foreground event, the error is
\* caught and logged and every other sink whose interest includes the event
\* type still receives the event.
Sinks == {"chat_repl", "graph_view", "status_bar", "log_pane"}
Interested(e) == {routed_calls(e)[i].sink : i \in 1 .. Len(routed_calls(e))} \cap Sinks
Received == {router.result.calls[i].sink : i \in 1 .. Len(router.result.calls)}
SinkFailureIsolated ==
    (/\ router.pc = "routed"
     /\ app.is_ready /\ app.chat_repl # None /\ app.runtime # None
     /\ ~is_background(router.event, router.active_graph_id)
     /\ router.raising \in Interested(router.event))
        => /\ router.result.logged
           /\ Interested(router.event) \subseteq Received

\* C12: events emitted in the order E1, E2, E3 by one runtime are passed to
\* _route_event, and seen by the transcript, graph view, status bar and log
\* pane, in that order, whether each is routed directly on the Textual thread
\* or bridged from another thread with call_from_thread.
Increasing(q) == \A i, j \in 1 .. Len(q) : i < j => q[i] < q[j]
OrderPreserved ==
    router.pc = "bridge"
        => /\ Increasing(router.routed)
           /\ \A s \in DOMAIN router.observed : Increasing(router.observed[s])

\* C18: whatever the responses, _request_with_retry issues at most
\* MAX_RETRIES + 1 requests and ends with the response to the last of them;
\* when every response is 429 it issues exactly MAX_RETRIES + 1 requests and
\* returns the rate-limit error dict carrying retry_after.
Called == discord.pc \in {"request", "done"}
AllRateLimited ==
    /\ discord.responses # <<>>
    /\ Len(discord.responses) = discord.requests
    /\ \A i \in 1 .. Len(discord.responses) : discord.responses[i].status = 429
RetryBoundedState ==
    Called
        => /\ discord.requests <= MAX_RETRIES + 1
           /\ discord.pc = "request"
                 => discord.attempt <= MAX_RETRIES /\ discord.requests = discord.attempt
           /\ (discord.pc = "done" /\ AllRateLimited)
                 => /\ discord.requests = MAX_RETRIES + 1
                    /\ discord.result.kind = "error"
                    /\ discord.result.error = "rate limit"
                    /\ "retry_after" \in DOMAIN discord.result
                    /\ LET last == discord.responses[Len(discord.responses)]
                       IN  discord.result.retry_after
                             = IF last.body = "json" /\ last.retry_after # Absent
                               THEN last.retry_after ELSE 60
LastAttemptEnds ==
    (discord.pc = "request" /\ discord.attempt = MAX_RETRIES /\ discord' # discord)
        => discord'.pc = "done"
RetryBounded == [](RetryBoundedState) /\ [][LastAttemptEnds]_vars
RetryBoundedWitness ==
    /\ discord.pc = "done" /\ AllRateLimited
    /\ discord.requests = 3 /\ discord.result.kind = "error"
    /\ discord.result.error = "rate limit" /\ discord.result.retry_after = 5

\* C19: _request_with_retry retries only after a 429 response; k <= MAX_RETRIES
\* leading 429 responses followed by a response of another status cause
\* exactly k + 1 requests and k sleeps, the i-th of min(retry_after, 60)
\* seconds of the i-th 429 response (1 when the key is missing, 2^(i-1) when
\* the body does not parse), and the handled result of the last response is
\* returned.
ExpectedSleep(r, i) ==
    IF r.body = "json" /\ r.retry_after # Absent
    THEN IF r.retry_after <= 60 THEN r.retry_after ELSE 60
    ELSE IF r.body = "json" THEN 1
    ELSE IF i = 1 THEN 1 ELSE 2
RetriedThenAnswered ==
    /\ discord.pc = "done" /\ discord.responses # <<>>
    /\ Len(discord.responses) = discord.requests
    /\ discord.responses[Len(discord.responses)].status # 429
RetryOnly429State ==
    RetriedThenAnswered
        => LET k == Len(discord.responses) - 1
           IN  /\ k <= MAX_RETRIES
               /\ \A i \in 1 .. k : discord.responses[i].status = 429
               /\ discord.requests = k + 1
               /\ Len(discord.sleeps) = k
               /\ \A i \in 1 .. k :
                     discord.sleeps[i] = ExpectedSleep(discord.responses[i], i)
               /\ discord.result
                     = tool_result(_handle_response(discord.responses[k + 1]))
RetriesAfter429 ==
    (discord.pc = "request" /\ discord'.pc = "request" /\ discord' # discord)
        => /\ discord'.responses[Len(discord'.responses)].status = 429
           /\ Len(discord'.sleeps) = Len(discord.sleeps) + 1
RetryOnly429 == [](RetryOnly429State) /\ [][RetriesAfter429]_vars
RetryOnly429Witness ==
    /\ RetriedThenAnswered
    /\ discord.responses = <<Response(429, "json", 75), Response(429, "json", 5),
                             Response(200, "json", Absent)>>
    /\ discord.sleeps = <<60, 5>> /\ discord.requests = 3
    /\ discord.result.kind = "sent"

\* C20: discord_send_message with content longer than MAX_MESSAGE_LENGTH
\* returns an error dict carrying max_length and provided and makes no HTTP
\* request; content of exactly MAX_MESSAGE_LENGTH characters passes the
\* validation and is sent.
LengthValidation ==
    Called
        => /\ discord.provided > 2000
                 => /\ discord.pc = "done" /\ discord.requests = 0
                    /\ discord.result.kind = "error"
                    /\ discord.result.error = "too long"
                    /\ discord.result.max_length = 2000
                    /\ discord.result.provided = discord.provided
           /\ discord.provided <= 2000
                 => /\ ~(discord.result.kind = "error" /\ discord.result.error = "too long")
                    /\ (discord.token /\ discord.pc = "done") => discord.requests >= 1
LengthValidationWitness ==
    /\ discord.pc = "done" /\ discord.provided = 2000
    /\ discord.requests = 1 /\ discord.result.kind = "sent"

\* C21: save_account always stores the account under
\* '{credential_id}/{alias}' (alias 'default' when empty) whatever the health
\* check did: status 'active' when the check is valid or not run, 'failed'
\* when it reports invalid, 'unknown' when it raised; get_key for that
\* credential and alias then returns the saved api_key.
SavedAlias == IF registry.last.alias = "" THEN "default" ELSE registry.last.alias
Validating ==
    /\ registry'.ops = registry.ops + 1
    /\ registry'.last.op = "validate_account"
ValidatedId == <<registry'.last.credential_id, "/", registry'.last.alias>>
ValidateStep ==
    Validating
        => LET before == registry.storage[ValidatedId]
               after == registry'.storage[ValidatedId]
           IN  /\ \A id \in DOMAIN registry.storage \ {ValidatedId} :
                     registry'.storage[id] = registry.storage[id]
               /\ before = NoAccount
                     => registry'.last.outcome = "KeyError" /\ after = NoAccount
               /\ (before # NoAccount /\ before.api_key # "")
                     => /\ registry'.last.outcome = "returned"
                        /\ after._status = "active" <=> registry'.last.health = "valid"
                        /\ after._status = "failed" <=> registry'.last.health # "valid"
                        /\ after = [before EXCEPT !._status = after._status,
                                                  !.last_refreshed = TRUE]
ValidateAccount == [][ValidateStep]_vars
ValidateAccountWitness ==
    /\ registry.last.op = "validate_account"
    /\ registry.last.outcome = "returned" /\ registry.last.health = "raised"
    /\ registry.storage[<<registry.last.credential_id, "/", registry.last.alias>>]._status
         = "failed"

\* C23: cleanup_async of the escalation handle raising, or inject_input
\* raising, does not abort a return: the top frame is still popped, its saved
\* runtime and runner become the active ones, the router is subscribed again
\* to the restored runtime, and a failing inject_input only raises a warning.
Raised(a, op) == \E i \in 1 .. Len(a.calls) : a.calls[i].op = op /\ a.calls[i].msg = "raised"
TeardownFailed ==
    /\ ret.pc = "cleanup" /\ Raised(app', "cleanup_async")
    /\ app._escalation_stack # <<>>
RestoredAfterTeardown ==
    LET saved == Last(app._escalation_stack)
    IN  /\ app'._escalation_stack = Front(app._escalation_stack)
        /\ app'.runtime = saved.runtime /\ app'._runner = saved.runner
        /\ app'.chat_repl = saved.runtime
        /\ (saved.runtime # None /\ ~Raised(app', "subscribe_to_events"))
              => /\ app'._subscription_id = saved.runtime
                 /\ app'.subs[saved.runtime] = cur.subs[saved.runtime] + 1
        /\ ret'.pc = IF saved.blocked_node_id # "" THEN "inject" ELSE "idle"
        /\ saved.blocked_node_id # "" => InjectCalls(app') # <<>>
InjectFailed ==
    /\ ret.pc = "inject" /\ ret'.pc = "idle"
    /\ app'.notice = "Could not resume worker"
OnlyWarned == app' = [cur EXCEPT !.notice = "Could not resume worker"]
ReturnSurvivesFailure ==
    [][(TeardownFailed => RestoredAfterTeardown) /\ (InjectFailed => OnlyWarned)]_vars
ReturnSurvivesFailureWitness ==
    /\ Raised(app, "cleanup_async") /\ ~Raised(app, "subscribe_to_events")
    /\ ret.pc = "inject" /\ InjectCalls(app) # <<>>
    /\ app._escalation_stack = <<>>
    /\ app.runtime # None /\ app._subscription_id = app.runtime
    /\ app.chat_repl = app.runtime /\ app.loaded_by[app.runtime] # "escalate"

\* C24: when call_from_thread raises for an event, that event is dropped (it
\* is never passed to _route_event and no sink sees it), the failure is logged,
\* nothing propagates to the emitting runtime, and the events that arrive
\* afterwards are still delivered.
Numbers(q) == {q[i] : i \in 1 .. Len(q)}
Queued == {router.inflight[i].n : i \in 1 .. Len(router.inflight)}
BridgeFailureDrops ==
    router.pc = "bridge"
        => /\ \A n \in Numbers(router.failed) :
                 /\ n \notin Numbers(router.routed) /\ n \notin Queued
                 /\ \A s \in DOMAIN router.observed : n \notin Numbers(router.observed[s])
           /\ router.logged = router.failed
           /\ \A n \in 1 .. router.emitted :
                 n \notin Numbers(router.failed)
                     => n \in Numbers(router.routed) \/ n \in Queued
BridgeFailureDropsWitness ==
    /\ router.pc = "bridge"
    /\ router.failed = <<1>> /\ router.logged = <<1>>
    /\ router.emitted = 3 /\ router.routed = <<2, 3>> /\ router.inflight = <<>>
    /\ 2 \in Numbers(router.observed["chat_repl"])
    /\ 1 \notin Numbers(router.observed["chat_repl"])

\* C25: on_unmount looks the current execution id up in the streams of all
\* graph registrations and cancels at most one task that is not done; it then
\* always goes on to unsubscribe and ends, also when the cancelled task has
\* not finished when the wait of five seconds times out.
ShutdownState ==
    shutdown.pc # "off"
        => /\ ~app.is_ready
           /\ Len(shutdown.cancelled) <= 1
           /\ \A i \in 1 .. Len(shutdown.streams) :
                 shutdown.streams[i] = "cancelling" => shutdown.cancelled = <<i>>
           /\ shutdown.cancelled # <<>>
                 => \A j \in 1 .. shutdown.cancelled[1] - 1 :
                       shutdown.streams[j] # "running"
           /\ (shutdown.pc = "done" /\ app.runtime # None
                 /\ app._subscription_id = app.runtime)
                 => app.subs[app.runtime] = 0
ShutdownUnsubscribes ==
    (shutdown.pc # "done" /\ shutdown'.pc = "done"
       /\ app._subscription_id # None /\ app.runtime # None)
        => UnsubCalls(app') # <<>>
LoadTearsDown == load.pc = "start" /\ load'.pc \in {"cleanup", "load"}
LoadTornDown == load.pc = "cleanup" /\ load'.pc = "load"
LoadFails ==
    /\ load.pc = "load" /\ load'.pc = "idle"
    /\ app'.notice = "Failed to load agent"
LeftIdle ==
    /\ app'.runtime = None /\ app'._runner = None
    /\ app'._subscription_id = None
    /\ \A h \in Handles : app'.subs[h] = 0
CleanupOnce ==
    /\ LoadTearsDown
          => app'.cleanups = IF app.runtime # None /\ app._runner # None
                             THEN [app.cleanups EXCEPT ![app._runner] = @ + 1]
                             ELSE app.cleanups
    /\ (LoadTornDown \/ LoadFails) => app'.cleanups = app.cleanups
    /\ (LoadTearsDown \/ LoadTornDown \/ LoadFails)
          => app'._escalation_stack = app._escalation_stack
LoadFailureLeavesIdle == [][CleanupOnce /\ (LoadFails => LeftIdle)]_vars

\* C27: an event emitted by a runtime that an escalate, return or agent
\* switch has since unsubscribed, and that was already queued for the Textual
\* thread, never reaches the sinks mounted for the new active runtime, also
\* when it carries no graph_id.
NoStaleDelivery == router.pc = "bridge" => router.superseded = <<>>

\* C28: whatever escalates, returns, credential-setup retries and agent
\* switches came before, a runner that is installed as self._runner (loaded,
\* or restored from a frame by a return or a rollback) is not one on which
\* cleanup_async has already been run.
Installs == app'._runner # app._runner /\ app'._runner # None
InstalledRunnerIsLive ==
    [][Installs => app'.cleanups[app'._runner] = 0]_vars

\* C29: while no sinks are mounted (chat_repl is None) or the app is not
\* ready (after on_unmount), an event given to _route_event is dropped and
\* nothing happens: no sink is called, nothing is notified or logged, and an
\* ESCALATION_REQUESTED event starts no escalation and pushes no frame.
RoutesOne == router.pc = "off" /\ router'.pc = "routed"
DropsWhenUnmounted ==
    [][(RoutesOne /\ (~app.is_ready \/ app.chat_repl = None)) =>
          /\ router'.result = RouteResult("dropped", <<>>, 0, FALSE)
          /\ app' = cur
          /\ esc' = esc]_vars
DropsWhenUnmountedWitness ==
    /\ router.pc = "routed"
    /\ router.event.type = "ESCALATION_REQUESTED"
    /\ ~app.is_ready /\ app.chat_repl # None /\ shutdown.pc # "off"
    /\ router.result.outcome = "dropped"

\* C30: an escalate requested while self.runtime is None raises the error
\* notification and changes nothing else: no frame is pushed, nothing is
\* unsubscribed or unmounted, and hive_coder is not loaded.
EscalateWithoutRuntime ==
    app.runtime = None /\ (action_escalate_to_coder \/ escalate_begin)
OnlyNotified ==
    /\ app' = notify(cur, "No active agent to escalate from")
    /\ esc' \in {esc, EscIdle}
    /\ UNCHANGED <<ret, load>>
EscalateNeedsRuntime == [][EscalateWithoutRuntime => OnlyNotified]_vars
EscalateNeedsRuntimeWitness ==
    /\ app.notice = "No active agent to escalate from"
    /\ app.runtime = None /\ app._escalation_stack = <<>> /\ esc.pc = "idle"

============================================================================
